---- MODULE Spec2Model ----
(***************************************************************************)
(* Order line-item / inventory reconciliation of the dashboard front end. *)
(*                                                                         *)
(* The model holds the REST back end as a plain store (orders, product    *)
(* stock) and one browser session that creates orders (OrderForm), edits  *)
(* them (UpdateOrderForm) and deletes them (Orders page).  Every handler  *)
(* is cut at its awaits: an action is the code that runs between two      *)
(* awaits, and a call that is awaited sits in `inflight` until the back   *)
(* end resolves or rejects it.                                             *)
(*                                                                         *)
(* Line items carry a random id used only to address a line from the UI;  *)
(* the ids are unique, so a line is addressed here by its position.       *)
(*                                                                         *)
(* Smaller state machines share the module, each with its own            *)
(* specification: the list loading of the Orders page (SpecPage), the    *)
(* status, dispatch date and delivery person of an order (SpecStatus),   *)
(* the PaymentStatusBadge (SpecBadge), two sessions writing the stock of *)
(* one product (SpecSessions), the handlers that replace a row of the    *)
(* list (SpecList) and authentication, route guards and what the Orders  *)
(* page offers and sends (SpecAccess).  SpecLive is the forms' Spec with *)
(* every call in flight settling.                                         *)
(***************************************************************************)
EXTENDS Integers, Sequences, FiniteSets, TLC

\* ---------------------------------------------------------------- bounds
MaxQty    == 2      \* largest quantity typed into a quantity field
NumPrices == 2      \* distinct unit prices that can be typed
MaxItems  == 2      \* line items per order form
MaxOrders == 1      \* orders the back end ever holds
MaxSaves  == 2      \* create / edit / delete operations per behaviour
InitStock == 2      \* stock baseline of every product
MaxLoads  == 4      \* loadOrders invocations per behaviour
MaxTime   == 3      \* instants the clock passes through
MaxSent   == 3      \* update-order payloads sent from the Orders page per behaviour
DayTicks  == 2      \* clock ticks in a day (time of day matters to whole days)
MaxAdj    == 2      \* largest stock adjustment of an edit, either sign
MaxDispatch == 3    \* latest dispatch instant shown by a badge
MaxMutations == 3   \* status / paid / delivery handler calls per behaviour

Products == {"A", "B"}
Prices   == 1..NumPrices
Qtys     == (0 - 1)..MaxQty     \* typed quantities; 0 is also what parseInt(...) || 0 yields for junk
OrderIds == 1..MaxOrders

NoOrder == 0

Tabs       == {"all", "pending"}     \* two of the tabs of OrdersFilters
DateRanges == {"none", "r1", "r2"}   \* "none": from or to is missing
Triggers   == {"mount", "tab", "date", "refresh", "reload"}

Statuses == {"pending", "dc", "invoice", "dispatched"}
NoDate   == 0                        \* the field is absent
NoStaff  == "none"                   \* the field is absent
Staff    == {"s1", "s2"}

Conditions == {"immediate", "days15", "days30", "unspecified"}
Days15 == 15
Days30 == 30

Sessions == {1, 2}

MinNameLen  == 2                     \* customerName: z.string().min(2)
MinPhoneLen == 10                    \* customerPhone: z.string().min(10)
\* what the user typed, as far as the schema looks at it: lengths around the
\* two minimums
FormValues ==
    [customerName : (MinNameLen - 1)..MinNameLen,
     customerPhone : (MinPhoneLen - 1)..MinPhoneLen]

VARIABLES
    srvOrders,      \* back end: order id -> [state, items]
    srvStock,       \* back end: product id -> stock
    mode,           \* Orders page: "list", "create" (OrderForm), "update" (UpdateOrderForm)
    order,          \* UpdateOrderForm prop `order`: [id, items] (NoOrder when no form)
    orderItems,     \* form state `orderItems`
    products,       \* form state `products`: [loaded, stock]
    isLoading,      \* form state `isLoading`
    pc,             \* position of the running handler
    inflight,       \* API calls issued and not yet settled
    originalItems,  \* onSubmit local `originalItems` (the order as it was)
    subItems,       \* `orderItems` as captured by the running onSubmit
    subProducts,    \* `products` as captured by the running onSubmit
    entries,        \* what the stock loop iterates: <<[productId, adjustment]>>
    k,              \* index of the stock loop
    productCalls,   \* update-product calls issued by the current save
    callResults,    \* how they settled, in order: "ok" or "fail"
    errorToasts,    \* toast.error calls of the current save
    fieldErrors,    \* formState.errors: the fields whose message is shown
    successToasts,  \* toast.success calls of the current save
    onSuccessCalls, \* onSuccess / navigate calls of the current save
    saveResult,     \* outcome of the last save
    saveKind,       \* "create", "update" or "delete": the handler that last ran
    orderCommitted, \* the order call of the current save resolved
    nSaves          \* operations started so far

vars == <<srvOrders, srvStock, mode, order, orderItems, products, isLoading,
          pc, inflight, originalItems, subItems, subProducts, entries, k,
          productCalls, callResults, errorToasts, fieldErrors, successToasts, onSuccessCalls, saveResult,
          saveKind, orderCommitted, nSaves>>

\* Orders page, list loading (loadOrders and the effects that call it)
VARIABLES
    pageMounted,        \* the Orders component is mounted
    activeTab,          \* state `activeTab`
    dateRange,          \* state `dateRange`: "none" or a complete from/to range
    abortControllerRef, \* the controller in `abortControllerRef.current` (0: null)
    aborted,            \* controllers on which abort() was called
    loads,              \* loadOrders invocations awaiting their fetch
    orders,             \* state `orders`: the load whose response it holds (0: [])
    pageIsLoading,      \* state `isLoading` of the page
    nLoads              \* loadOrders invocations so far

loadVars == <<pageMounted, activeTab, dateRange, abortControllerRef, aborted,
              loads, orders, pageIsLoading, nLoads>>

\* Orders page, status and delivery of one order
VARIABLES
    srvOrder,           \* back end: [status, dispatchDate, deliveryPerson]
    now,                \* the clock read by new Date()
    statusCalls,        \* updateOrder / assignDeliveryPerson calls in flight
    sentUpdates,        \* the update-order payloads sent so far, in order
    isDeliveryAssignDialogOpen  \* state `isDeliveryAssignDialogOpen`

statusVars == <<srvOrder, now, statusCalls, sentUpdates,
                isDeliveryAssignDialogOpen>>

\* PaymentStatusBadge
VARIABLES
    badgeOrder,         \* prop `order`: [isPaid, status, dispatchDate, paymentCondition]
    today,              \* new Date() at render
    badge               \* what the component returned

badgeVars == <<badgeOrder, today, badge>>

\* two browser sessions editing orders that hold the same product
VARIABLES
    sharedStock,        \* back end: stock of the product both orders hold
    sessProducts,       \* session -> its `products` snapshot of that stock
    sessPc,             \* session -> position of its onSubmit
    sessCalls,          \* update-product calls in flight: [session, stock]
    applied             \* the calls the back end applied, in order

sessVars == <<sharedStock, sessProducts, sessPc, sessCalls, applied>>

\* The rows of the Orders page and the handlers that replace one of them.
VARIABLES
    rowSrv,             \* row id -> the order as the back end holds it
    tableOrders,        \* `orders` of the page: row id -> the order shown
    lastResponse,       \* row id -> the order of the last response for it
    mutations,          \* handler calls in flight, each with the `orders` it closed over
    isUpdateLoading,    \* isUpdateLoading of the page
    assignDialogRow,    \* the row the delivery assignment dialog is open on
    nMutations          \* handler calls started so far

listVars == <<rowSrv, tableOrders, lastResponse, mutations, isUpdateLoading,
              assignDialogRow, nMutations>>

\* Authentication, the route guards and what the Orders page offers and sends.
VARIABLES
    loading,            \* AuthContext.loading
    user,               \* AuthContext.user
    stored,             \* localStorage 'user'
    location,           \* the path of the router
    rendered,           \* what the element of the matched route returns
    offered,            \* the actions of the row menu or view dialog last opened
    lastBody            \* the body of the last request sent from the Orders page

accessVars == <<loading, user, stored, location, rendered, offered, lastBody>>

allVars == <<vars, loadVars, statusVars, badgeVars, sessVars, listVars,
             accessVars>>

\* ------------------------------------------------------------- helpers
Max(a, b) == IF a >= b THEN a ELSE b

RowIds == {1, 2}
NoRow  == 0

\* the fields of an order the three handlers change
Row(st, paid, dp) == [status |-> st, isPaid |-> paid, deliveryPerson |-> dp]

\* ------------------------------------------------ users, routes, offers
Roles   == {"admin", "staff", "executive"}
UserIds == {"u1", "u2"}
NoId    == ""                           \* the field is absent

NoUser == [role |-> "none", id |-> NoId, mid |-> NoId]

\* response.staff of a login: `mid` is _id; a user has id, _id or both, and
\* then they are equal
Users ==
    {u \in [role : Roles, id : UserIds \union {NoId}, mid : UserIds \union {NoId}] :
        /\ u.id # NoId \/ u.mid # NoId
        /\ (u.id # NoId /\ u.mid # NoId) => u.id = u.mid}

IsAuthenticated(u) == u # NoUser
IsAdmin(u)         == u.role = "admin"
IsExecutive(u)     == u.role = "executive"

Paths == {"/", "/login", "/dashboard", "/orders", "/products", "/staff",
          "/analytics"}
ProtectedPages == {"/dashboard", "/orders", "/products", "/staff", "/analytics"}
AdminPages     == {"/staff", "/analytics"}

Spinner      == [kind |-> "spinner", path |-> ""]
Page(p)      == [kind |-> "page", path |-> p]
Redirect(p)  == [kind |-> "redirect", path |-> p]

\* <PrivateRoute>children</PrivateRoute>
PrivateRoute(children, ld, u) ==
    IF ld THEN Spinner
    ELSE IF ~IsAuthenticated(u) THEN Redirect("/login")
    ELSE children

\* mutant: the role is not looked at
AdminRouteAnyRole(children, ld, u) ==
    IF ld THEN Spinner
    ELSE IF ~IsAuthenticated(u) THEN Redirect("/login")
    ELSE children

\* <AdminRoute>children</AdminRoute>
AdminRoute(children, ld, u) ==
    IF ld THEN Spinner
    ELSE IF ~IsAuthenticated(u) THEN Redirect("/login")
    ELSE IF ~IsAdmin(u) /\ ~IsExecutive(u) THEN Redirect("/dashboard")
    ELSE children

\* Home: <Navigate to={isExecutive ? "/orders" : "/dashboard"} />
Home(u) == Redirect(IF IsExecutive(u) THEN "/orders" ELSE "/dashboard")

\* the element of the route that matches `path`
RouteElement(path, ld, u) ==
    CASE path = "/login"      -> Page("/login")
      [] path = "/"           -> PrivateRoute(Home(u), ld, u)
      [] path \in AdminPages  -> AdminRoute(Page(path), ld, u)
      [] OTHER                -> PrivateRoute(Page(path), ld, u)

\* an order as the row menu and the view dialog look at it
ShownOrders == [assignedTo : UserIds, status : Statuses, isPaid : BOOLEAN]
NoShownOrder == [assignedTo |-> NoId, status |-> "none", isPaid |-> FALSE]

Offer(via, o, actions) == [via |-> via, order |-> o, actions |-> actions]
NoOffer == Offer("none", NoShownOrder, {})

\* the row menu of OrdersTable: the items rendered and not disabled
MenuOffers(u, o) ==
    {"view", "print"} \union
    (IF ~IsExecutive(u) /\ (IsAdmin(u) \/ o.assignedTo = u.mid \/ o.assignedTo = u.id)
     THEN {"edit", "status"} \union
          (IF (IsAdmin(u) \/ (o.status = "dispatched" /\ ~o.isPaid)) /\ ~o.isPaid
           THEN {"markPaid"} ELSE {}) \union
          (IF IsAdmin(u) THEN {"delete"} ELSE {})
     ELSE {})

\* OrderViewDialog, which the page hands every handler: the buttons rendered
DialogOffers(u, o, isMobileOrTablet) ==
    {"print", "edit"} \union
    (IF isMobileOrTablet
     THEN {"status", "delete"} \union (IF ~o.isPaid THEN {"markPaid"} ELSE {})
     ELSE {})

\* a request body: its keys and the value of createdBy
Body(kd, keys, by) == [kind |-> kd, keys |-> keys, createdBy |-> by]
NoBody == Body("none", {}, NoId)

Item(p, q, pr) == [productId |-> p, quantity |-> q, price |-> pr]

Entry(p, a) == [productId |-> p, adjustment |-> a]

Call(kd, o, p, s, its, tot) ==
    [kind |-> kd, oid |-> o, pid |-> p, stock |-> s, items |-> its,
     total |-> tot]

NoProducts == [loaded |-> FALSE, stock |-> [p \in Products |-> 0]]

\* total quantity of product p over a list of line items
RECURSIVE TotalQty(_, _)
TotalQty(items, p) ==
    IF items = <<>> THEN 0
    ELSE (IF Head(items).productId = p THEN Head(items).quantity ELSE 0)
         + TotalQty(Tail(items), p)

ProductsOf(items) == {items[i].productId : i \in DOMAIN items}

\* `productId in inventoryAdjustments`
HasKey(es, p) == \E i \in DOMAIN es : es[i].productId = p

\* inventoryAdjustments[productId]
Adjustment(es, p) ==
    LET i == CHOOSE j \in DOMAIN es : es[j].productId = p
    IN  es[i].adjustment

\* inventoryAdjustments[productId] = v   (a new key goes last in Object.entries)
SetKey(es, p, v) ==
    IF HasKey(es, p)
    THEN [i \in DOMAIN es |->
            IF es[i].productId = p THEN Entry(p, v) ELSE es[i]]
    ELSE Append(es, Entry(p, v))

\* ------------------------------------------- UpdateOrderForm.onSubmit, pure part
\* originalItems.forEach: inventoryAdjustments[productId] = -originalItem.quantity
OriginalStep(es, it) == SetKey(es, it.productId, 0 - it.quantity)

\* mutant: every edited line overwrites the entry of its product
UpdatedStepOverwrites(es, it) == SetKey(es, it.productId, it.quantity)

\* orderItems.forEach: += when the key is present, = otherwise
UpdatedStep(es, it) ==
    IF HasKey(es, it.productId)
    THEN SetKey(es, it.productId, Adjustment(es, it.productId) + it.quantity)
    ELSE SetKey(es, it.productId, it.quantity)

RECURSIVE TrackOriginal(_, _)
TrackOriginal(es, items) ==
    IF items = <<>> THEN es
    ELSE TrackOriginal(OriginalStep(es, Head(items)), Tail(items))

RECURSIVE TrackUpdated(_, _)
TrackUpdated(es, items) ==
    IF items = <<>> THEN es
    ELSE TrackUpdated(UpdatedStep(es, Head(items)), Tail(items))

\* Object.entries(inventoryAdjustments) after both passes
InventoryAdjustments(origItems, newItems) ==
    TrackUpdated(TrackOriginal(<<>>, origItems), newItems)

\* OrderForm.onSubmit iterates the line items themselves
NewOrderEntries(items) ==
    [i \in DOMAIN items |-> Entry(items[i].productId, items[i].quantity)]

\* mutant: the clamp at 0 is missing
NewStockUnclamped(stock, adjustment) == stock - adjustment

\* Math.max(0, product.stock - adjustment)
NewStock(stock, adjustment) == Max(0, stock - adjustment)

\* products.find(...) : the list holds every product once it is loaded
Found(prods, p) == prods.loaded

\* does iteration i of the stock loop reach updateProduct?
\* (the edit form skips a zero adjustment, the create form has no such test)
ReachesCall(kind, es, prods, i) ==
    /\ Found(prods, es[i].productId)
    /\ kind = "update" => es[i].adjustment # 0

\* mutant: updateProduct is not awaited, the loop issues every call at once
IssueFromNoAwait(kind, es, prods, from) ==
    LET cand == {i \in DOMAIN es : i >= from /\ ReachesCall(kind, es, prods, i)}
    IN  IF cand = {} THEN <<>>
        ELSE IF Cardinality(cand) = 1 THEN <<CHOOSE i \in cand : TRUE>>
        ELSE <<CHOOSE i \in cand : \A j \in cand : i <= j,
               CHOOSE i \in cand : \A j \in cand : i >= j>>

\* iterations the loop runs through, from index `from`, before the handler
\* suspends: `await updateProduct` suspends it at the first call it issues
IssueFrom(kind, es, prods, from) ==
    LET cand == {i \in DOMAIN es : i >= from /\ ReachesCall(kind, es, prods, i)}
    IN  IF cand = {} THEN <<>>
        ELSE <<CHOOSE i \in cand : \A j \in cand : i <= j>>

ProductCall(es, prods, i) ==
    Call("updateProduct", NoOrder, es[i].productId,
         NewStock(prods.stock[es[i].productId], es[i].adjustment), <<>>, 0)

Range(sq) == {sq[i] : i \in DOMAIN sq}

RemoveAt(sq, i) == [j \in 1..(Len(sq) - 1) |-> IF j < i THEN sq[j] ELSE sq[j + 1]]

NoOrderProp == [id |-> NoOrder, items |-> <<>>]

FreeIds == {o \in OrderIds : srvOrders[o].state = "free"}

formVars == <<order, orderItems, products, isLoading>>
srvVars  == <<srvOrders, srvStock>>
saveVars == <<originalItems, subItems, subProducts, entries, k, productCalls,
              callResults, errorToasts, fieldErrors,
              successToasts, onSuccessCalls, saveResult, saveKind,
              orderCommitted>>

\* ------------------------------------------------------------------ Init
\* the forms and the back end they write to
InitForms ==
    /\ srvOrders = [o \in OrderIds |-> [state |-> "free", items |-> <<>>]]
    /\ srvStock = [p \in Products |-> InitStock]
    /\ mode = "list"
    /\ order = NoOrderProp
    /\ orderItems = <<>>
    /\ products = NoProducts
    /\ isLoading = FALSE
    /\ pc = "idle"
    /\ inflight = {}
    /\ originalItems = <<>>
    /\ subItems = <<>>
    /\ subProducts = NoProducts
    /\ entries = <<>>
    /\ k = 0
    /\ productCalls = <<>>
    /\ callResults = <<>>
    /\ errorToasts = 0
    /\ fieldErrors = {}
    /\ successToasts = 0
    /\ onSuccessCalls = 0
    /\ saveResult = "none"
    /\ saveKind = "none"
    /\ orderCommitted = FALSE
    /\ nSaves = 0

\* the Orders page before it mounts
InitPage ==
    /\ pageMounted = FALSE
    /\ activeTab = "all"
    /\ dateRange = "none"
    /\ abortControllerRef = 0
    /\ aborted = {}
    /\ loads = {}
    /\ orders = 0
    /\ pageIsLoading = TRUE
    /\ nLoads = 0

\* one pending order, never dispatched, nobody assigned
InitStatus ==
    /\ srvOrder = [status |-> "pending", dispatchDate |-> NoDate,
                   deliveryPerson |-> NoStaff]
    /\ now = 1
    /\ statusCalls = {}
    /\ sentUpdates = <<>>
    /\ isDeliveryAssignDialogOpen = FALSE

\* no badge is rendered
NoBadge ==
    /\ badgeOrder = [isPaid |-> FALSE, status |-> "pending",
                     dispatchDate |-> NoDate, paymentCondition |-> "immediate"]
    /\ today = 0
    /\ badge = "unrendered"

\* both sessions have their edit form open; the product list is not fetched yet
InitSessions ==
    /\ sharedStock = InitStock
    /\ sessProducts = [s \in Sessions |-> [loaded |-> FALSE, stock |-> 0]]
    /\ sessPc = [s \in Sessions |-> "editing"]
    /\ sessCalls = {}
    /\ applied = <<>>

\* the Orders page after its list was loaded: two pending, unpaid orders
InitList ==
    /\ rowSrv = [o \in RowIds |-> Row("pending", FALSE, NoStaff)]
    /\ tableOrders = [o \in RowIds |-> Row("pending", FALSE, NoStaff)]
    /\ lastResponse = [o \in RowIds |-> Row("pending", FALSE, NoStaff)]
    /\ mutations = {}
    /\ isUpdateLoading = FALSE
    /\ assignDialogRow = NoRow
    /\ nMutations = 0

\* a browser that never logged in opens the application at /
InitAccess ==
    /\ loading = TRUE
    /\ user = NoUser
    /\ stored = NoUser
    /\ location = "/"
    /\ rendered = RouteElement("/", TRUE, NoUser)
    /\ offered = NoOffer
    /\ lastBody = NoBody

Init ==
    /\ InitForms /\ InitPage /\ InitStatus /\ NoBadge /\ InitSessions
    /\ InitList /\ InitAccess

\* the log of the previous save is dropped when a form is mounted
ResetSave ==
    /\ originalItems' = <<>>
    /\ subItems' = <<>>
    /\ subProducts' = NoProducts
    /\ entries' = <<>>
    /\ k' = 0
    /\ productCalls' = <<>>
    /\ callResults' = <<>>
    /\ errorToasts' = 0
    /\ fieldErrors' = {}
    /\ successToasts' = 0
    /\ onSuccessCalls' = 0
    /\ saveResult' = "none"
    /\ saveKind' = "none"
    /\ orderCommitted' = FALSE

\* --------------------------------------------------- Orders page: open forms
\* onCreateOrder: setIsCreateMode(true) mounts OrderForm without initialOrder
OpenCreate ==
    /\ mode = "list" /\ pc = "idle"
    /\ nSaves < MaxSaves
    /\ FreeIds # {}
    /\ mode' = "create"
    /\ order' = NoOrderProp
    /\ orderItems' = <<>>
    /\ products' = NoProducts
    /\ isLoading' = FALSE
    /\ ResetSave
    /\ UNCHANGED <<srvVars, pc, inflight, nSaves>>

\* handleUpdateOrder: mounts UpdateOrderForm on the selected order; the
\* useEffect on [order] copies its line items into orderItems
OpenUpdate(o) ==
    /\ mode = "list" /\ pc = "idle"
    /\ nSaves < MaxSaves
    /\ srvOrders[o].state = "live"
    /\ mode' = "update"
    /\ order' = [id |-> o, items |-> srvOrders[o].items]
    /\ orderItems' = srvOrders[o].items
    /\ products' = NoProducts
    /\ isLoading' = FALSE
    /\ ResetSave
    /\ UNCHANGED <<srvVars, pc, inflight, nSaves>>

\* onCancel: the form is unmounted
Cancel ==
    /\ mode \in {"create", "update"} /\ pc = "idle"
    /\ mode' = "list"
    /\ order' = NoOrderProp
    /\ orderItems' = <<>>
    /\ products' = NoProducts
    /\ UNCHANGED <<srvVars, isLoading, pc, inflight, saveVars, nSaves>>

\* loadProducts: fetchProducts() resolves and setProducts(productsData);
\* a rejected or pending fetch leaves products = []
LoadProducts ==
    /\ mode \in {"create", "update"}
    /\ ~products.loaded
    /\ products' = [loaded |-> TRUE, stock |-> srvStock]
    /\ UNCHANGED <<srvVars, mode, order, orderItems, isLoading, pc, inflight,
                   saveVars, nSaves>>

\* ------------------------------------------------------ line-item handlers
\* handleAddItem of both forms: a line of the same product AND price absorbs
\* the quantity, anything else becomes a new line
AddItem(items, p, q, pr) ==
    LET same == {i \in DOMAIN items :
                    items[i].productId = p /\ items[i].price = pr}
    IN  IF q <= 0 \/ pr <= 0 THEN items
        ELSE IF same # {}
        THEN LET i == CHOOSE x \in same : \A y \in same : x <= y
             IN  [items EXCEPT ![i].quantity = @ + q]
        ELSE Append(items, Item(p, q, pr))

\* the quantity field of a line: parseInt(e.target.value) || 1
QuantityField(typed) == IF typed = 0 THEN 1 ELSE typed

\* mutant: the test on newQuantity is missing
UpdateItemQuantityUnchecked(items, i, newQuantity) ==
    [items EXCEPT ![i].quantity = newQuantity]

\* handleUpdateItemQuantity
UpdateItemQuantity(items, i, newQuantity) ==
    IF newQuantity <= 0 THEN items
    ELSE [items EXCEPT ![i].quantity = newQuantity]

\* handleUpdateItemPrice
UpdateItemPrice(items, i, newPrice) ==
    IF newPrice <= 0 THEN items
    ELSE [items EXCEPT ![i].price = newPrice]

\* mutant: the quantities are left out of the sum
CalculateTotalOfPrices(items) ==
    IF items = <<>> THEN 0
    ELSE items[1].price + (IF Len(items) > 1 THEN items[2].price ELSE 0)

\* calculateTotal of both forms: reduce over the line items, from 0
RECURSIVE CalculateTotal(_)
CalculateTotal(items) ==
    IF items = <<>> THEN 0
    ELSE CalculateTotal(SubSeq(items, 1, Len(items) - 1))
         + items[Len(items)].quantity * items[Len(items)].price

WithinBounds(items) ==
    /\ Len(items) <= MaxItems
    /\ \A i \in DOMAIN items : items[i].quantity <= MaxQty

Editing == mode \in {"create", "update"} /\ pc = "idle"

\* the product is picked from the loaded list (handleSelectProduct)
HandleAddItem(p, q, pr) ==
    /\ Editing
    /\ products.loaded
    /\ WithinBounds(AddItem(orderItems, p, q, pr))
    /\ orderItems' = AddItem(orderItems, p, q, pr)
    /\ UNCHANGED <<srvVars, mode, order, products, isLoading, pc, inflight,
                   saveVars, nSaves>>

HandleUpdateItemQuantity(i, typed) ==
    /\ Editing /\ mode = "update"
    /\ i \in DOMAIN orderItems
    /\ orderItems' = UpdateItemQuantity(orderItems, i, QuantityField(typed))
    /\ UNCHANGED <<srvVars, mode, order, products, isLoading, pc, inflight,
                   saveVars, nSaves>>

HandleUpdateItemPrice(i, pr) ==
    /\ Editing /\ mode = "update"
    /\ i \in DOMAIN orderItems
    /\ orderItems' = UpdateItemPrice(orderItems, i, pr)
    /\ UNCHANGED <<srvVars, mode, order, products, isLoading, pc, inflight,
                   saveVars, nSaves>>

HandleRemoveItem(i) ==
    /\ Editing
    /\ i \in DOMAIN orderItems
    /\ orderItems' = RemoveAt(orderItems, i)
    /\ UNCHANGED <<srvVars, mode, order, products, isLoading, pc, inflight,
                   saveVars, nSaves>>

\* ------------------------------------------------------------ stock loop
\* The part of onSubmit after the order call resolved, resumed at iteration
\* `from` with `rest` the calls still in flight and `toasts` the success
\* toasts shown so far.  The edit form toasts after the loop, the create
\* form before it.  onSuccess of the Orders page unmounts the form.
StockLoop(kind, from, rest, toasts) ==
    LET idxs == IssueFrom(kind, entries, subProducts, from)
        new  == [i \in DOMAIN idxs |-> ProductCall(entries, subProducts, idxs[i])]
    IN  IF idxs # <<>>
        THEN /\ inflight' = rest \union Range(new)
             /\ productCalls' = productCalls \o new
             /\ k' = idxs[Len(idxs)]
             /\ pc' = "awaitStock"
             /\ successToasts' = toasts
             /\ UNCHANGED <<mode, formVars, onSuccessCalls, saveResult>>
        ELSE /\ inflight' = rest
             /\ k' = Len(entries) + 1
             /\ pc' = "idle"
             /\ successToasts' = IF kind = "update" THEN toasts + 1 ELSE toasts
             /\ onSuccessCalls' = onSuccessCalls + 1
             /\ saveResult' = "success"
             /\ mode' = "list"
             /\ order' = NoOrderProp
             /\ orderItems' = <<>>
             /\ products' = NoProducts
             /\ isLoading' = FALSE
             /\ UNCHANGED productCalls

\* what a handler resets when it starts
StartSave(kind) ==
    /\ saveKind' = kind
    /\ saveResult' = "running"
    /\ productCalls' = <<>>
    /\ callResults' = <<>>
    /\ errorToasts' = 0
    /\ fieldErrors' = {}
    /\ successToasts' = 0
    /\ onSuccessCalls' = 0
    /\ orderCommitted' = FALSE
    /\ k' = 0
    /\ nSaves' = nSaves + 1

\* zodResolver(orderFormSchema): the fields the schema rejects
SchemaErrors(values) ==
    (IF values.customerName < MinNameLen THEN {"customerName"} ELSE {})
        \union
    (IF values.customerPhone < MinPhoneLen THEN {"customerPhone"} ELSE {})

\* form.handleSubmit with a rejecting resolver: onSubmit is not called and
\* the messages of the rejected fields are rendered
RejectSchema(kind, values) ==
    /\ saveKind' = kind
    /\ saveResult' = "schemaInvalid"
    /\ productCalls' = <<>>
    /\ callResults' = <<>>
    /\ errorToasts' = 0
    /\ fieldErrors' = SchemaErrors(values)
    /\ successToasts' = 0
    /\ onSuccessCalls' = 0
    /\ orderCommitted' = FALSE
    /\ UNCHANGED <<srvVars, mode, formVars, pc, inflight, originalItems,
                   subItems, subProducts, entries, k, nSaves>>

\* mutant: the guard toasts and the handler goes on to the order call
RejectEmptyThenCall(kind) ==
    /\ saveKind' = kind
    /\ saveResult' = "invalid"
    /\ productCalls' = <<>>
    /\ callResults' = <<>>
    /\ errorToasts' = 1
    /\ fieldErrors' = {}
    /\ successToasts' = 0
    /\ onSuccessCalls' = 0
    /\ orderCommitted' = FALSE
    /\ inflight' = inflight \union {Call(kind \o "Order", order.id, "", 0, orderItems,
                                  CalculateTotal(orderItems))}
    /\ UNCHANGED <<srvVars, mode, formVars, pc, originalItems,
                   subItems, subProducts, entries, k, nSaves>>

\* the guard on an empty item list, common to both forms
RejectEmpty(kind) ==
    /\ saveKind' = kind
    /\ saveResult' = "invalid"
    /\ productCalls' = <<>>
    /\ callResults' = <<>>
    /\ errorToasts' = 1
    /\ fieldErrors' = {}
    /\ successToasts' = 0
    /\ onSuccessCalls' = 0
    /\ orderCommitted' = FALSE
    /\ UNCHANGED <<srvVars, mode, formVars, pc, inflight, originalItems,
                   subItems, subProducts, entries, k, nSaves>>

\* mutant: the failure path also runs the success callback
OrderCallFailedThenSuccess(c) ==
    /\ inflight' = inflight \ {c}
    /\ errorToasts' = errorToasts + 1
    /\ UNCHANGED fieldErrors
    /\ saveResult' = "orderFailed"
    /\ isLoading' = FALSE
    /\ pc' = "idle"
    /\ originalItems' = <<>>
    /\ subItems' = <<>>
    /\ subProducts' = NoProducts
    /\ entries' = <<>>
    /\ onSuccessCalls' = onSuccessCalls + 1
    /\ UNCHANGED <<srvVars, mode, order, orderItems, products, k,
                   productCalls, callResults, successToasts, saveKind,
                   orderCommitted, nSaves>>

\* mutant: the catch block is not followed by setIsLoading(false)
OrderCallFailedKeepsLoading(c) ==
    /\ inflight' = inflight \ {c}
    /\ errorToasts' = errorToasts + 1
    /\ UNCHANGED fieldErrors
    /\ saveResult' = "orderFailed"
    /\ pc' = "idle"
    /\ originalItems' = <<>>
    /\ subItems' = <<>>
    /\ subProducts' = NoProducts
    /\ entries' = <<>>
    /\ UNCHANGED <<srvVars, mode, order, orderItems, products, isLoading, k,
                   productCalls, callResults, successToasts, onSuccessCalls, saveKind,
                   orderCommitted, nSaves>>

\* the catch block of onSubmit: one toast.error, then finally; the handler
\* returns and its locals are gone, the form stays mounted
OrderCallFailed(c) ==
    /\ inflight' = inflight \ {c}
    /\ errorToasts' = errorToasts + 1
    /\ UNCHANGED fieldErrors
    /\ saveResult' = "orderFailed"
    /\ isLoading' = FALSE
    /\ pc' = "idle"
    /\ originalItems' = <<>>
    /\ subItems' = <<>>
    /\ subProducts' = NoProducts
    /\ entries' = <<>>
    /\ UNCHANGED <<srvVars, mode, order, orderItems, products, k,
                   productCalls, callResults, successToasts, onSuccessCalls, saveKind,
                   orderCommitted, nSaves>>

\* --------------------------------------------- UpdateOrderForm.onSubmit
SubmitUpdate(values) ==
    /\ mode = "update" /\ pc = "idle" /\ ~isLoading
    /\ IF SchemaErrors(values) # {}
       THEN RejectSchema("update", values)
       ELSE IF orderItems = <<>>
       THEN RejectEmpty("update")
       ELSE /\ nSaves < MaxSaves
            /\ StartSave("update")
            /\ isLoading' = TRUE
            /\ originalItems' = order.items
            /\ entries' = InventoryAdjustments(order.items, orderItems)
            /\ subItems' = orderItems
            /\ subProducts' = products
            /\ inflight' = inflight \union
                   {Call("updateOrder", order.id, "", 0, orderItems,
                         CalculateTotal(orderItems))}
            /\ pc' = "awaitOrder"
            /\ UNCHANGED <<srvVars, mode, order, orderItems, products>>

\* updateOrder (or updateOrderWithImage) resolves: the back end stores the
\* payload and returns the order, so `if (updatedOrder)` holds and the handler
\* goes on into the stock loop
UpdateOrderResolved(c) ==
    /\ pc = "awaitOrder" /\ c \in inflight /\ c.kind = "updateOrder"
    /\ srvOrders[c.oid].state = "live"
    /\ srvOrders' = [srvOrders EXCEPT ![c.oid].items = c.items]
    /\ orderCommitted' = TRUE
    /\ StockLoop("update", 1, inflight \ {c}, successToasts)
    /\ UNCHANGED <<srvStock, originalItems, subItems, subProducts, entries,
                   callResults, errorToasts, fieldErrors, saveKind, nSaves>>

UpdateOrderRejected(c) ==
    /\ pc = "awaitOrder" /\ c \in inflight /\ c.kind = "updateOrder"
    /\ OrderCallFailed(c)

\* --------------------------------------------------- OrderForm.onSubmit
SubmitCreate(values) ==
    /\ mode = "create" /\ pc = "idle" /\ ~isLoading
    /\ IF SchemaErrors(values) # {}
       THEN RejectSchema("create", values)
       ELSE IF orderItems = <<>>
       THEN RejectEmpty("create")
       ELSE /\ nSaves < MaxSaves
            /\ StartSave("create")
            /\ isLoading' = TRUE
            /\ originalItems' = <<>>
            /\ entries' = NewOrderEntries(orderItems)
            /\ subItems' = orderItems
            /\ subProducts' = products
            /\ inflight' = inflight \union
                   {Call("createOrder", NoOrder, "", 0, orderItems,
                         CalculateTotal(orderItems))}
            /\ pc' = "awaitOrder"
            /\ UNCHANGED <<srvVars, mode, order, orderItems, products>>

CreateOrderResolved(c) ==
    /\ pc = "awaitOrder" /\ c \in inflight /\ c.kind = "createOrder"
    /\ FreeIds # {}
    /\ LET o == CHOOSE x \in FreeIds : \A y \in FreeIds : x <= y
       IN  srvOrders' = [srvOrders EXCEPT
                            ![o] = [state |-> "live", items |-> c.items]]
    /\ orderCommitted' = TRUE
    /\ StockLoop("create", 1, inflight \ {c}, successToasts + 1)
    /\ UNCHANGED <<srvStock, originalItems, subItems, subProducts, entries,
                   callResults, errorToasts, fieldErrors, saveKind, nSaves>>

CreateOrderRejected(c) ==
    /\ pc = "awaitOrder" /\ c \in inflight /\ c.kind = "createOrder"
    /\ OrderCallFailed(c)

\* ------------------------------------------- updateProduct settles
UpdateProductResolved(c) ==
    /\ pc = "awaitStock" /\ c \in inflight /\ c.kind = "updateProduct"
    /\ srvStock' = [srvStock EXCEPT ![c.pid] = c.stock]
    /\ callResults' = Append(callResults, "ok")
    /\ StockLoop(saveKind, k + 1, inflight \ {c}, successToasts)
    /\ UNCHANGED <<srvOrders, originalItems, subItems, subProducts, entries,
                   errorToasts, fieldErrors, saveKind, orderCommitted, nSaves>>

\* mutant: a rejected stock call reaches the outer catch and ends the save
UpdateProductRejectedAborts(c) ==
    /\ pc = "awaitStock" /\ c \in inflight /\ c.kind = "updateProduct"
    /\ inflight' = inflight \ {c}
    /\ callResults' = Append(callResults, "fail")
    /\ errorToasts' = errorToasts + 1
    /\ UNCHANGED fieldErrors
    /\ saveResult' = "orderFailed"
    /\ isLoading' = FALSE
    /\ pc' = "idle"
    /\ UNCHANGED <<srvVars, mode, order, orderItems, products, originalItems,
                   subItems, subProducts, entries, k, productCalls,
                   successToasts, onSuccessCalls, saveKind, orderCommitted,
                   nSaves>>

\* mutant: the inner catch also tells the user
UpdateProductRejectedToasts(c) ==
    /\ pc = "awaitStock" /\ c \in inflight /\ c.kind = "updateProduct"
    /\ callResults' = Append(callResults, "fail")
    /\ errorToasts' = errorToasts + 1
    /\ StockLoop(saveKind, k + 1, inflight \ {c}, successToasts)
    /\ UNCHANGED <<srvVars, originalItems, subItems, subProducts, entries,
                   fieldErrors, saveKind, orderCommitted, nSaves>>

\* the inner catch: console.error, the loop continues
UpdateProductRejected(c) ==
    /\ pc = "awaitStock" /\ c \in inflight /\ c.kind = "updateProduct"
    /\ callResults' = Append(callResults, "fail")
    /\ StockLoop(saveKind, k + 1, inflight \ {c}, successToasts)
    /\ UNCHANGED <<srvVars, originalItems, subItems, subProducts, entries,
                   errorToasts, fieldErrors, saveKind, orderCommitted, nSaves>>

\* ------------------------------------------------ Orders.handleDeleteOrder
HandleDeleteOrder(o) ==
    /\ mode = "list" /\ pc = "idle"
    /\ nSaves < MaxSaves
    /\ srvOrders[o].state = "live"
    /\ StartSave("delete")
    /\ inflight' = inflight \union {Call("deleteOrder", o, "", 0, <<>>, 0)}
    /\ pc' = "awaitDelete"
    /\ UNCHANGED <<srvVars, mode, formVars, originalItems, subItems, subProducts,
                   entries>>

DeleteOrderResolved(c) ==
    /\ pc = "awaitDelete" /\ c \in inflight /\ c.kind = "deleteOrder"
    /\ srvOrders' = [srvOrders EXCEPT
                        ![c.oid] = [state |-> "deleted", items |-> <<>>]]
    /\ inflight' = inflight \ {c}
    /\ successToasts' = successToasts + 1
    /\ saveResult' = "success"
    /\ pc' = "idle"
    /\ UNCHANGED <<srvStock, mode, formVars, originalItems, subItems,
                   subProducts, entries, k, productCalls, callResults, errorToasts, fieldErrors, onSuccessCalls, saveKind,
                   orderCommitted, nSaves>>

DeleteOrderRejected(c) ==
    /\ pc = "awaitDelete" /\ c \in inflight /\ c.kind = "deleteOrder"
    /\ inflight' = inflight \ {c}
    /\ errorToasts' = errorToasts + 1
    /\ UNCHANGED fieldErrors
    /\ saveResult' = "orderFailed"
    /\ pc' = "idle"
    /\ UNCHANGED <<srvVars, mode, formVars, originalItems, subItems,
                   subProducts, entries, k, productCalls, callResults, successToasts, onSuccessCalls, saveKind,
                   orderCommitted, nSaves>>

\* ------------------------------------------------------------------ Next
PriceInputs == 0..NumPrices

\* what the forms never touch
pageAndRest == <<loadVars, statusVars, badgeVars, sessVars, listVars, accessVars>>

Next ==
    \/ OpenCreate /\ UNCHANGED pageAndRest
    \/ \E o \in OrderIds : OpenUpdate(o) /\ UNCHANGED pageAndRest
    \/ Cancel /\ UNCHANGED pageAndRest
    \/ LoadProducts /\ UNCHANGED pageAndRest
    \/ \E p \in Products, q \in Qtys, pr \in PriceInputs : HandleAddItem(p, q, pr) /\ UNCHANGED pageAndRest
    \/ \E i \in 1..MaxItems, q \in Qtys : HandleUpdateItemQuantity(i, q) /\ UNCHANGED pageAndRest
    \/ \E i \in 1..MaxItems, pr \in PriceInputs : HandleUpdateItemPrice(i, pr) /\ UNCHANGED pageAndRest
    \/ \E i \in 1..MaxItems : HandleRemoveItem(i) /\ UNCHANGED pageAndRest
    \/ \E v \in FormValues : SubmitUpdate(v) /\ UNCHANGED pageAndRest
    \/ \E c \in inflight : UpdateOrderResolved(c) /\ UNCHANGED pageAndRest
    \/ \E c \in inflight : UpdateOrderRejected(c) /\ UNCHANGED pageAndRest
    \/ \E v \in FormValues : SubmitCreate(v) /\ UNCHANGED pageAndRest
    \/ \E c \in inflight : CreateOrderResolved(c) /\ UNCHANGED pageAndRest
    \/ \E c \in inflight : CreateOrderRejected(c) /\ UNCHANGED pageAndRest
    \/ \E c \in inflight : UpdateProductResolved(c) /\ UNCHANGED pageAndRest
    \/ \E c \in inflight : UpdateProductRejected(c) /\ UNCHANGED pageAndRest
    \/ \E o \in OrderIds : HandleDeleteOrder(o) /\ UNCHANGED pageAndRest
    \/ \E c \in inflight : DeleteOrderResolved(c) /\ UNCHANGED pageAndRest
    \/ \E c \in inflight : DeleteOrderRejected(c) /\ UNCHANGED pageAndRest

Spec == Init /\ [][Next]_vars

\* an API call in flight settles: its promise resolves or rejects
Settle ==
    \E c \in inflight :
        \/ UpdateOrderResolved(c) \/ UpdateOrderRejected(c)
        \/ CreateOrderResolved(c) \/ CreateOrderRejected(c)
        \/ UpdateProductResolved(c) \/ UpdateProductRejected(c)
        \/ DeleteOrderResolved(c) \/ DeleteOrderRejected(c)

\* the forms when no promise stays pending for ever
SpecLive == Init /\ [][Next]_vars /\ WF_vars(Settle /\ UNCHANGED pageAndRest)

TypeOK ==
    /\ mode \in {"list", "create", "update"}
    /\ pc \in {"idle", "awaitOrder", "awaitStock", "awaitDelete"}
    /\ isLoading \in BOOLEAN
    /\ \A p \in Products : srvStock[p] \in Nat

\* ============================================ Orders page: loading the list
\* A load is named by the number of the loadOrders invocation that started
\* it; its AbortController and its response carry the same number.
Load(n, tr) == [n |-> n, trigger |-> tr]

\* abortControllerRef.current.abort(), guarded by `if (abortControllerRef.current)`
AbortCurrent ==
    IF abortControllerRef # 0 THEN aborted \union {abortControllerRef} ELSE aborted

\* loadOrders up to its await: a new controller replaces the one in the ref
\* (the old one is not aborted here) and the fetch is issued
LoadOrders(tr) ==
    /\ nLoads < MaxLoads
    /\ nLoads' = nLoads + 1
    /\ abortControllerRef' = nLoads + 1
    /\ loads' = loads \union {Load(nLoads + 1, tr)}
    /\ pageIsLoading' = TRUE

\* the three effects run in order on mount: the initial load, then the tab
\* effect, which aborts it and loads again; the date effect finds no range
Mount ==
    /\ ~pageMounted /\ nLoads = 0
    /\ pageMounted' = TRUE
    /\ nLoads' = 2
    /\ abortControllerRef' = 2
    /\ aborted' = aborted \union {1}
    /\ loads' = loads \union {Load(1, "mount"), Load(2, "tab")}
    /\ pageIsLoading' = TRUE
    /\ UNCHANGED <<activeTab, dateRange, orders>>

\* cleanup of the mount effect
Unmount ==
    /\ pageMounted
    /\ pageMounted' = FALSE
    /\ aborted' = AbortCurrent
    /\ UNCHANGED <<activeTab, dateRange, abortControllerRef, loads, orders,
                   pageIsLoading, nLoads>>

\* setActiveTab from OrdersFilters, then the effect on [activeTab]
SetActiveTab(t) ==
    /\ pageMounted /\ t # activeTab
    /\ activeTab' = t
    /\ aborted' = AbortCurrent
    /\ LoadOrders("tab")
    /\ UNCHANGED <<pageMounted, dateRange, orders>>

\* setDateRange from OrdersFilters, then the effect on [from, to]
SetDateRange(r) ==
    /\ pageMounted /\ r # dateRange
    /\ dateRange' = r
    /\ IF r # "none"
       THEN /\ aborted' = AbortCurrent
            /\ LoadOrders("date")
       ELSE UNCHANGED <<aborted, abortControllerRef, loads, pageIsLoading, nLoads>>
    /\ UNCHANGED <<pageMounted, activeTab, orders>>

\* onRefresh={loadOrders}
Refresh ==
    /\ pageMounted
    /\ LoadOrders("refresh")
    /\ UNCHANGED <<pageMounted, activeTab, dateRange, aborted, orders>>

\* onSuccess of OrderForm / UpdateOrderForm: the form closes and loadOrders()
ReloadAfterSave ==
    /\ pageMounted
    /\ LoadOrders("reload")
    /\ UNCHANGED <<pageMounted, activeTab, dateRange, aborted, orders>>

\* the fetch of a load resolves: loadOrders after its await
LoadResolved(l) ==
    /\ l \in loads
    /\ loads' = loads \ {l}
    /\ IF l.n \notin aborted
       THEN /\ orders' = l.n
            /\ pageIsLoading' = FALSE
       ELSE UNCHANGED <<orders, pageIsLoading>>
    /\ UNCHANGED <<pageMounted, activeTab, dateRange, abortControllerRef,
                   aborted, nLoads>>

\* the fetch of a load rejects: catch and finally of loadOrders
LoadRejected(l) ==
    /\ l \in loads
    /\ loads' = loads \ {l}
    /\ pageIsLoading' = IF l.n \notin aborted THEN FALSE ELSE pageIsLoading
    /\ UNCHANGED <<pageMounted, activeTab, dateRange, abortControllerRef,
                   aborted, orders, nLoads>>

\* what the list page never touches
formsAndRest == <<vars, statusVars, badgeVars, sessVars, listVars, accessVars>>

NextPage ==
    \/ Mount /\ UNCHANGED formsAndRest
    \/ Unmount /\ UNCHANGED formsAndRest
    \/ \E t \in Tabs : SetActiveTab(t) /\ UNCHANGED formsAndRest
    \/ \E r \in DateRanges : SetDateRange(r) /\ UNCHANGED formsAndRest
    \/ Refresh /\ UNCHANGED formsAndRest
    \/ ReloadAfterSave /\ UNCHANGED formsAndRest
    \/ \E l \in loads : LoadResolved(l) /\ UNCHANGED formsAndRest
    \/ \E l \in loads : LoadRejected(l) /\ UNCHANGED formsAndRest

SpecPage == Init /\ [][NextPage]_allVars

\* ================================== Orders page: status, dispatch, delivery
\* A payload is the part of the request body that bears on dispatch: a field
\* that the body does not contain is NoDate / NoStaff here.
Payload(st, dd, dp) == [status |-> st, dispatchDate |-> dd, deliveryPerson |-> dp]

\* mutant: dispatching also names a delivery person
StatusUpdatesAssigning(status, t) ==
    Payload(status, IF status = "dispatched" THEN t ELSE NoDate,
            IF status = "dispatched" THEN "s1" ELSE NoStaff)

\* handleStatusChange: `updates`, built at time t
StatusUpdates(status, t) ==
    Payload(status, IF status = "dispatched" THEN t ELSE NoDate, NoStaff)

\* UpdateOrderForm.onSubmit: `finalOrderData`, built at time t; orderData has
\* no deliveryPerson and dispatchDate is spread in only when it is defined
FinalOrderData(status, t) ==
    LET dispatchDate == IF status = "dispatched" THEN t ELSE NoDate
    IN  Payload(status, dispatchDate, NoStaff)

\* a request of the Orders page or of the edit form, numbered as sent
StatusCall(kd, via, n, pl, keys) ==
    [kind |-> kd, via |-> via, n |-> n, payload |-> pl, keys |-> keys]

\* the keys of `updates` before dispatchDate is added
UpdatesKeys == {"status"}

\* the keys of `orderData` of the edit form
OrderDataKeys ==
    {"customerName", "customerPhone", "customerEmail", "customerAddress",
     "status", "paymentCondition", "priority", "assignedTo", "notes",
     "items", "total"}

\* the keys of the JSON body: the base object's and those of the fields set
BodyKeys(base, pl) ==
    base \union (IF pl.dispatchDate # NoDate THEN {"dispatchDate"} ELSE {})
         \union (IF pl.deliveryPerson # NoStaff THEN {"deliveryPerson"} ELSE {})

\* PUT /orders/:id stores the fields the body carries
MergeOrder(o, pl) ==
    [status |-> pl.status,
     dispatchDate |-> IF pl.dispatchDate # NoDate THEN pl.dispatchDate
                      ELSE o.dispatchDate,
     deliveryPerson |-> IF pl.deliveryPerson # NoStaff THEN pl.deliveryPerson
                        ELSE o.deliveryPerson]

\* updateOrder(orderId, pl) is issued
SendUpdate(via, pl, base) ==
    /\ Len(sentUpdates) < MaxSent
    /\ sentUpdates' = Append(sentUpdates, pl)
    /\ statusCalls' = statusCalls \union
           {StatusCall("updateOrder", via, Len(sentUpdates) + 1, pl,
                       BodyKeys(base, pl))}

\* the Change Status items of the row menu: `disabled` of the item for t
MenuItemDisabled(orderStatus, t, busy) ==
    orderStatus = t \/ busy

\* mutant: a dispatched order takes no other status
HandleStatusChangeFinal(status) ==
    /\ srvOrder.status # "dispatched"
    /\ SendUpdate("status", StatusUpdates(status, now), UpdatesKeys)
    /\ UNCHANGED <<srvOrder, now, isDeliveryAssignDialogOpen>>

\* handleStatusChange up to its await; the handler takes any status, whatever
\* the order's status is
HandleStatusChange(status) ==
    /\ SendUpdate("status", StatusUpdates(status, now), UpdatesKeys)
    /\ UNCHANGED <<srvOrder, now, isDeliveryAssignDialogOpen>>

\* handleStatusChange after its await: the list row is replaced and, for
\* dispatched, the delivery assignment dialog opens
StatusChangeResolved(c) ==
    /\ c \in statusCalls /\ c.kind = "updateOrder" /\ c.via = "status"
    /\ statusCalls' = statusCalls \ {c}
    /\ srvOrder' = MergeOrder(srvOrder, c.payload)
    /\ isDeliveryAssignDialogOpen' =
           IF c.payload.status = "dispatched" THEN TRUE
           ELSE isDeliveryAssignDialogOpen
    /\ UNCHANGED <<now, sentUpdates>>

\* mutant: the dialog opens although the change failed
StatusChangeRejectedOpensDialog(c) ==
    /\ c \in statusCalls /\ c.kind = "updateOrder" /\ c.via = "status"
    /\ statusCalls' = statusCalls \ {c}
    /\ isDeliveryAssignDialogOpen' = TRUE
    /\ UNCHANGED <<srvOrder, now, sentUpdates>>

\* handleStatusChange, catch
StatusChangeRejected(c) ==
    /\ c \in statusCalls /\ c.kind = "updateOrder" /\ c.via = "status"
    /\ statusCalls' = statusCalls \ {c}
    /\ UNCHANGED <<srvOrder, now, sentUpdates, isDeliveryAssignDialogOpen>>

\* UpdateOrderForm.onSubmit, as far as status and dispatch go
EditFormSave(status) ==
    /\ SendUpdate("form", FinalOrderData(status, now), OrderDataKeys)
    /\ UNCHANGED <<srvOrder, now, isDeliveryAssignDialogOpen>>

EditFormSaveResolved(c) ==
    /\ c \in statusCalls /\ c.kind = "updateOrder" /\ c.via = "form"
    /\ statusCalls' = statusCalls \ {c}
    /\ srvOrder' = MergeOrder(srvOrder, c.payload)
    /\ UNCHANGED <<now, sentUpdates, isDeliveryAssignDialogOpen>>

EditFormSaveRejected(c) ==
    /\ c \in statusCalls /\ c.kind = "updateOrder" /\ c.via = "form"
    /\ statusCalls' = statusCalls \ {c}
    /\ UNCHANGED <<srvOrder, now, sentUpdates, isDeliveryAssignDialogOpen>>

\* DeliveryAssignDialog: Assign Delivery, disabled while its call is awaited;
\* Orders.handleAssignDelivery up to its await
HandleAssignDelivery(staffId) ==
    /\ isDeliveryAssignDialogOpen
    /\ \A c \in statusCalls : c.kind # "assignDeliveryPerson"
    /\ statusCalls' = statusCalls \union
           {StatusCall("assignDeliveryPerson", "dialog", 0,
                       Payload("none", NoDate, staffId), {"deliveryPersonId"})}
    /\ UNCHANGED <<srvOrder, now, sentUpdates, isDeliveryAssignDialogOpen>>

\* PUT /orders/:id/delivery-person resolves; the dialog closes
AssignDeliveryResolved(c) ==
    /\ c \in statusCalls /\ c.kind = "assignDeliveryPerson"
    /\ statusCalls' = statusCalls \ {c}
    /\ srvOrder' = [srvOrder EXCEPT !.deliveryPerson = c.payload.deliveryPerson]
    /\ isDeliveryAssignDialogOpen' = FALSE
    /\ UNCHANGED <<now, sentUpdates>>

AssignDeliveryRejected(c) ==
    /\ c \in statusCalls /\ c.kind = "assignDeliveryPerson"
    /\ statusCalls' = statusCalls \ {c}
    /\ UNCHANGED <<srvOrder, now, sentUpdates, isDeliveryAssignDialogOpen>>

\* Cancel of the dialog: onOpenChange(false)
CloseDeliveryDialog ==
    /\ isDeliveryAssignDialogOpen
    /\ isDeliveryAssignDialogOpen' = FALSE
    /\ UNCHANGED <<srvOrder, now, statusCalls, sentUpdates>>

\* time passes
Tick ==
    /\ now < MaxTime
    /\ now' = now + 1
    /\ UNCHANGED <<srvOrder, statusCalls, sentUpdates, isDeliveryAssignDialogOpen>>

\* what status handling never touches
formsPageAndRest == <<vars, loadVars, badgeVars, sessVars, listVars, accessVars>>

NextStatus ==
    \/ \E st \in Statuses : HandleStatusChange(st) /\ UNCHANGED formsPageAndRest
    \/ \E c \in statusCalls : StatusChangeResolved(c) /\ UNCHANGED formsPageAndRest
    \/ \E c \in statusCalls : StatusChangeRejected(c) /\ UNCHANGED formsPageAndRest
    \/ \E st \in Statuses : EditFormSave(st) /\ UNCHANGED formsPageAndRest
    \/ \E c \in statusCalls : EditFormSaveResolved(c) /\ UNCHANGED formsPageAndRest
    \/ \E c \in statusCalls : EditFormSaveRejected(c) /\ UNCHANGED formsPageAndRest
    \/ \E st \in Staff : HandleAssignDelivery(st) /\ UNCHANGED formsPageAndRest
    \/ \E c \in statusCalls : AssignDeliveryResolved(c) /\ UNCHANGED formsPageAndRest
    \/ \E c \in statusCalls : AssignDeliveryRejected(c) /\ UNCHANGED formsPageAndRest
    \/ CloseDeliveryDialog /\ UNCHANGED formsPageAndRest
    \/ Tick /\ UNCHANGED formsPageAndRest

SpecStatus == Init /\ [][NextStatus]_allVars

\* ======================================================= PaymentStatusBadge
\* Instants are clock ticks, DayTicks to a day, so that two instants can be
\* less than a whole number of days apart.
BadgeOrders ==
    [isPaid : BOOLEAN, status : Statuses,
     dispatchDate : {NoDate} \union (1..MaxDispatch),
     paymentCondition : Conditions]

\* the renders span a little more than thirty days after the latest dispatch
Todays == 0..((Days30 + 1) * DayTicks + MaxDispatch)

\* date-fns differenceInDays: full days between the two instants, truncated
\* towards zero
DifferenceInDays(dateLeft, dateRight) ==
    LET diff == dateLeft - dateRight
    IN  IF diff >= 0 THEN diff \div DayTicks ELSE -((-diff) \div DayTicks)

\* mutant: due only after the threshold day has passed
IsPaymentDueStrict(paymentCondition, daysSinceDispatch) ==
    CASE paymentCondition = "immediate" -> TRUE
      [] paymentCondition = "days15" -> daysSinceDispatch > Days15
      [] paymentCondition = "days30" -> daysSinceDispatch > Days30
      [] OTHER -> TRUE

\* the switch on order.paymentCondition
IsPaymentDue(paymentCondition, daysSinceDispatch) ==
    CASE paymentCondition = "immediate" -> TRUE
      [] paymentCondition = "days15" -> daysSinceDispatch >= Days15
      [] paymentCondition = "days30" -> daysSinceDispatch >= Days30
      [] OTHER -> TRUE

\* mutant: the status of the order is not looked at
PaymentStatusBadgeAnyStatus(o, t) ==
    IF o.isPaid THEN "Paid"
    ELSE IF o.dispatchDate = NoDate THEN "none"
    ELSE IF IsPaymentDue(o.paymentCondition, DifferenceInDays(t, o.dispatchDate))
         THEN "Payment Due"
         ELSE "none"

\* what the component returns for order o rendered at instant t
PaymentStatusBadge(o, t) ==
    IF o.isPaid THEN "Paid"
    ELSE IF o.status # "dispatched" \/ o.dispatchDate = NoDate THEN "none"
    ELSE IF IsPaymentDue(o.paymentCondition, DifferenceInDays(t, o.dispatchDate))
         THEN "Payment Due"
         ELSE "none"

\* any order, rendered at any instant
InitBadge ==
    /\ InitForms /\ InitPage /\ InitStatus /\ InitSessions /\ InitList
    /\ InitAccess
    /\ badgeOrder \in BadgeOrders
    /\ today \in Todays
    /\ badge = "unrendered"

Render ==
    /\ badge = "unrendered"
    /\ badge' = PaymentStatusBadge(badgeOrder, today)
    /\ UNCHANGED <<badgeOrder, today>>

\* the badge is rendered again once the clock has moved on
RenderLater ==
    /\ badge # "unrendered"
    /\ today + 1 \in Todays
    /\ today' = today + 1
    /\ badge' = PaymentStatusBadge(badgeOrder, today + 1)
    /\ UNCHANGED badgeOrder

\* what the badge never touches
allButBadge == <<vars, loadVars, statusVars, sessVars, listVars, accessVars>>

NextBadge ==
    \/ Render /\ UNCHANGED allButBadge
    \/ RenderLater /\ UNCHANGED allButBadge

SpecBadge == InitBadge /\ [][NextBadge]_allVars

\* ===================================== two sessions, one product's stock
\* Each session has UpdateOrderForm open on an order that holds the product
\* and saves one edit whose adjustment for the product is not zero.
Adjustments == {a \in (0 - MaxAdj)..MaxAdj : a # 0}

SessCall(s, kd, adj, st) ==
    [session |-> s, kind |-> kd, adjustment |-> adj, stock |-> st]

\* loadProducts of session s resolves: setProducts(data)
SessLoadProducts(s) ==
    /\ sessPc[s] = "editing" /\ ~sessProducts[s].loaded
    /\ sessProducts' = [sessProducts EXCEPT
                           ![s] = [loaded |-> TRUE, stock |-> sharedStock]]
    /\ UNCHANGED <<sharedStock, sessPc, sessCalls, applied>>

\* onSubmit of session s to its first await: updateOrder is issued
SessSubmit(s, adj) ==
    /\ sessPc[s] = "editing"
    /\ sessPc' = [sessPc EXCEPT ![s] = "awaitOrder"]
    /\ sessCalls' = sessCalls \union {SessCall(s, "updateOrder", adj, 0)}
    /\ UNCHANGED <<sharedStock, sessProducts, applied>>

\* updateOrder resolves and the stock loop runs to its await: the stock sent
\* is computed from this session's `products`; nothing is sent, and the save
\* ends, when the product is not in that list
SessOrderResolved(c) ==
    /\ c \in sessCalls /\ c.kind = "updateOrder"
    /\ IF sessProducts[c.session].loaded
       THEN /\ sessCalls' = (sessCalls \ {c}) \union
                   {SessCall(c.session, "updateProduct", c.adjustment,
                             NewStock(sessProducts[c.session].stock, c.adjustment))}
            /\ sessPc' = [sessPc EXCEPT ![c.session] = "awaitStock"]
       ELSE /\ sessCalls' = sessCalls \ {c}
            /\ sessPc' = [sessPc EXCEPT ![c.session] = "done"]
    /\ UNCHANGED <<sharedStock, sessProducts, applied>>

\* updateOrder rejects: the form stays open
SessOrderRejected(c) ==
    /\ c \in sessCalls /\ c.kind = "updateOrder"
    /\ sessCalls' = sessCalls \ {c}
    /\ sessPc' = [sessPc EXCEPT ![c.session] = "editing"]
    /\ UNCHANGED <<sharedStock, sessProducts, applied>>

\* mutant: the back end applies the adjustment to the stock it holds
SessStockResolvedRelative(c) ==
    /\ c \in sessCalls /\ c.kind = "updateProduct"
    /\ sharedStock' = NewStock(sharedStock, c.adjustment)
    /\ applied' = Append(applied, c)
    /\ sessCalls' = sessCalls \ {c}
    /\ sessPc' = [sessPc EXCEPT ![c.session] = "done"]
    /\ UNCHANGED sessProducts

\* updateProduct resolves: PUT /products/:id stores the stock of the body,
\* which carries no version; the save ends and the form closes
SessStockResolved(c) ==
    /\ c \in sessCalls /\ c.kind = "updateProduct"
    /\ sharedStock' = c.stock
    /\ applied' = Append(applied, c)
    /\ sessCalls' = sessCalls \ {c}
    /\ sessPc' = [sessPc EXCEPT ![c.session] = "done"]
    /\ UNCHANGED sessProducts

\* updateProduct rejects: logged, the save ends as a success
SessStockRejected(c) ==
    /\ c \in sessCalls /\ c.kind = "updateProduct"
    /\ sessCalls' = sessCalls \ {c}
    /\ sessPc' = [sessPc EXCEPT ![c.session] = "done"]
    /\ UNCHANGED <<sharedStock, sessProducts, applied>>

\* what the two sessions never touch
allButSessions == <<vars, loadVars, statusVars, badgeVars, listVars, accessVars>>

NextSessions ==
    \/ \E s \in Sessions : SessLoadProducts(s) /\ UNCHANGED allButSessions
    \/ \E s \in Sessions, a \in Adjustments : SessSubmit(s, a) /\ UNCHANGED allButSessions
    \/ \E c \in sessCalls : SessOrderResolved(c) /\ UNCHANGED allButSessions
    \/ \E c \in sessCalls : SessOrderRejected(c) /\ UNCHANGED allButSessions
    \/ \E c \in sessCalls : SessStockResolved(c) /\ UNCHANGED allButSessions
    \/ \E c \in sessCalls : SessStockRejected(c) /\ UNCHANGED allButSessions

SpecSessions == Init /\ [][NextSessions]_allVars

\* ============================== Orders page: replacing a row of the list
\* a handler suspended at its await; `captured` is the `orders` of the render
\* the handler was created in (useCallback with [orders])
Mutation(kd, o, arg, captured, n) ==
    [kind |-> kd, oid |-> o, arg |-> arg, captured |-> captured, n |-> n]

\* what the back end stores and returns for the request of mutation m
Apply(row, m) ==
    CASE m.kind = "status" -> [row EXCEPT !.status = m.arg]
      [] m.kind = "paid"   -> [row EXCEPT !.isPaid = TRUE]
      [] m.kind = "assign" -> [row EXCEPT !.deliveryPerson = m.arg]

\* orders.map(order => order._id === orderId ? updatedOrder : order)
ReplaceRow(list, o, updatedOrder) ==
    [x \in RowIds |-> IF x = o THEN updatedOrder ELSE list[x]]

StartMutation(kd, o, arg) ==
    /\ nMutations < MaxMutations
    /\ nMutations' = nMutations + 1
    /\ mutations' = mutations \union
           {Mutation(kd, o, arg, tableOrders, nMutations + 1)}

\* handleStatusChange called from the row menu ("menu", items disabled while
\* an update is loading) or from the Select of the order view dialog
\* ("dialog", never disabled)
RowStatusChange(via, o, status) ==
    /\ via = "menu" => ~MenuItemDisabled(tableOrders[o].status, status, isUpdateLoading)
    /\ StartMutation("status", o, status)
    /\ isUpdateLoading' = TRUE
    /\ UNCHANGED <<rowSrv, tableOrders, lastResponse, assignDialogRow>>

\* handleMarkPaid: offered while the order shown is unpaid
RowMarkPaid(o) ==
    /\ ~tableOrders[o].isPaid
    /\ StartMutation("paid", o, "")
    /\ isUpdateLoading' = TRUE
    /\ UNCHANGED <<rowSrv, tableOrders, lastResponse, assignDialogRow>>

\* handleAssignDelivery, from the dialog; its button is disabled while its
\* own call is pending
RowAssignDelivery(staffId) ==
    /\ assignDialogRow # NoRow
    /\ \A m \in mutations : m.kind # "assign"
    /\ StartMutation("assign", assignDialogRow, staffId)
    /\ UNCHANGED <<rowSrv, tableOrders, lastResponse, isUpdateLoading,
                   assignDialogRow>>

\* the call resolves: setOrders(orders.map(...)) over the captured list
MutationResolved(m) ==
    /\ m \in mutations
    /\ mutations' = mutations \ {m}
    /\ rowSrv' = [rowSrv EXCEPT ![m.oid] = Apply(rowSrv[m.oid], m)]
    /\ lastResponse' = [lastResponse EXCEPT ![m.oid] = Apply(rowSrv[m.oid], m)]
    /\ tableOrders' = ReplaceRow(m.captured, m.oid, Apply(rowSrv[m.oid], m))
    /\ isUpdateLoading' = IF m.kind = "assign" THEN isUpdateLoading ELSE FALSE
    /\ assignDialogRow' =
           IF m.kind = "status" /\ m.arg = "dispatched" THEN m.oid
           ELSE IF m.kind = "assign" THEN NoRow
           ELSE assignDialogRow
    /\ UNCHANGED nMutations

\* the call rejects: toast.error, the list is not written
MutationRejected(m) ==
    /\ m \in mutations
    /\ mutations' = mutations \ {m}
    /\ isUpdateLoading' = IF m.kind = "assign" THEN isUpdateLoading ELSE FALSE
    /\ UNCHANGED <<rowSrv, tableOrders, lastResponse, assignDialogRow,
                   nMutations>>

\* the delivery assignment dialog is dismissed
CloseAssignDialog ==
    /\ assignDialogRow # NoRow
    /\ assignDialogRow' = NoRow
    /\ UNCHANGED <<rowSrv, tableOrders, lastResponse, mutations,
                   isUpdateLoading, nMutations>>

allButList == <<vars, loadVars, statusVars, badgeVars, sessVars, accessVars>>

NextList ==
    \/ \E via \in {"menu", "dialog"}, o \in RowIds, st \in Statuses :
           RowStatusChange(via, o, st) /\ UNCHANGED allButList
    \/ \E o \in RowIds : RowMarkPaid(o) /\ UNCHANGED allButList
    \/ \E st \in Staff : RowAssignDelivery(st) /\ UNCHANGED allButList
    \/ \E m \in mutations : MutationResolved(m) /\ UNCHANGED allButList
    \/ \E m \in mutations : MutationRejected(m) /\ UNCHANGED allButList
    \/ CloseAssignDialog /\ UNCHANGED allButList

SpecList == Init /\ [][NextList]_allVars

\* ===================== authentication, route guards, offers and payloads
\* user?._id || user?.id || '1'
CreatedBy(u) ==
    IF u.mid # NoId THEN u.mid ELSE IF u.id # NoId THEN u.id ELSE "1"

\* the keys of `orderData` of OrderForm
OrderFormKeys == OrderDataKeys \union {"isPaid"}

\* mutant: createdBy is set whether or not there is an initialOrder
OrderFormBodyAlwaysCreatedBy(initialOrder, status, u) ==
    Body(IF initialOrder THEN "updateOrder" ELSE "createOrder",
         BodyKeys(OrderFormKeys, FinalOrderData(status, MaxTime))
             \union {"createdBy"},
         CreatedBy(u))

\* the body OrderForm.onSubmit sends, in create mode and in update mode
OrderFormBody(initialOrder, status, u) ==
    Body(IF initialOrder THEN "updateOrder" ELSE "createOrder",
         BodyKeys(OrderFormKeys, FinalOrderData(status, MaxTime))
             \union (IF ~initialOrder THEN {"createdBy"} ELSE {}),
         IF ~initialOrder THEN CreatedBy(u) ELSE NoId)

\* the body UpdateOrderForm.onSubmit sends
UpdateOrderFormBody(status) ==
    Body("updateOrder", BodyKeys(OrderDataKeys, FinalOrderData(status, MaxTime)),
         NoId)

\* the body handleStatusChange sends
StatusChangeBody(status) ==
    Body("updateOrder", BodyKeys(UpdatesKeys, StatusUpdates(status, MaxTime)), NoId)

\* the body of markOrderAsPaid
MarkPaidBody == Body("markOrderAsPaid", {"isPaid", "paidAt"}, NoId)

\* the body of assignDeliveryPerson
AssignDeliveryBody == Body("assignDeliveryPerson", {"deliveryPersonId"}, NoId)

\* the state of the page is gone when the router leaves it
PageGone == offered' = NoOffer /\ lastBody' = NoBody

\* the effect of AuthProvider: the stored user is read, loading ends
AuthEffect ==
    /\ loading
    /\ loading' = FALSE
    /\ user' = stored
    /\ rendered' = RouteElement(location, FALSE, stored)
    /\ UNCHANGED <<stored, location, offered, lastBody>>

\* login resolves: the user is set and stored, then navigate by role
Login(u) ==
    /\ location = "/login" /\ ~loading /\ ~IsAuthenticated(user)
    /\ user' = u
    /\ stored' = u
    /\ location' = IF IsExecutive(u) THEN "/orders" ELSE "/dashboard"
    /\ rendered' = RouteElement(location', FALSE, u)
    /\ PageGone
    /\ UNCHANGED loading

\* the effect of the Login page for a user who is authenticated
LoginPageEffect ==
    /\ location = "/login" /\ ~loading /\ IsAuthenticated(user)
    /\ location' = IF IsExecutive(user) THEN "/orders" ELSE "/dashboard"
    /\ rendered' = RouteElement(location', FALSE, user)
    /\ PageGone
    /\ UNCHANGED <<loading, user, stored>>

\* logout, from the layout of a page
Logout ==
    /\ rendered.kind = "page" /\ rendered.path \in ProtectedPages
    /\ user' = NoUser
    /\ stored' = NoUser
    /\ location' = "/login"
    /\ rendered' = RouteElement("/login", loading, NoUser)
    /\ PageGone
    /\ UNCHANGED loading

\* a link is followed inside the application
Navigate(path) ==
    /\ location' = path
    /\ rendered' = RouteElement(path, loading, user)
    /\ PageGone
    /\ UNCHANGED <<loading, user, stored>>

\* the address is typed or the page reloaded: the application starts again
Reload(path) ==
    /\ loading' = TRUE
    /\ user' = NoUser
    /\ location' = path
    /\ rendered' = RouteElement(path, TRUE, NoUser)
    /\ PageGone
    /\ UNCHANGED stored

\* <Navigate to=... replace />
FollowRedirect ==
    /\ rendered.kind = "redirect"
    /\ location' = rendered.path
    /\ rendered' = RouteElement(rendered.path, loading, user)
    /\ PageGone
    /\ UNCHANGED <<loading, user, stored>>

OnOrdersPage == rendered = Page("/orders")

\* the row menu of an order is opened (desktop table)
OpenRowMenu(o) ==
    /\ OnOrdersPage
    /\ offered' = Offer("menu", o, MenuOffers(user, o))
    /\ lastBody' = NoBody
    /\ UNCHANGED <<loading, user, stored, location, rendered>>

\* the view dialog of an order is opened: View details of the row menu, or
\* the card of the order on a mobile screen
OpenViewDialog(o, isMobileOrTablet) ==
    /\ OnOrdersPage
    /\ offered' = Offer(IF isMobileOrTablet THEN "dialogMobile" ELSE "dialog",
                        o, DialogOffers(user, o, isMobileOrTablet))
    /\ lastBody' = NoBody
    /\ UNCHANGED <<loading, user, stored, location, rendered>>

\* a request is sent from the Orders page
Send(body) ==
    /\ OnOrdersPage
    /\ lastBody' = body
    /\ offered' = NoOffer
    /\ UNCHANGED <<loading, user, stored, location, rendered>>

allButAccess == <<vars, loadVars, statusVars, badgeVars, sessVars, listVars>>

NextAccess ==
    \/ AuthEffect /\ UNCHANGED allButAccess
    \/ \E u \in Users : Login(u) /\ UNCHANGED allButAccess
    \/ LoginPageEffect /\ UNCHANGED allButAccess
    \/ Logout /\ UNCHANGED allButAccess
    \/ \E path \in Paths : Navigate(path) /\ UNCHANGED allButAccess
    \/ \E path \in Paths : Reload(path) /\ UNCHANGED allButAccess
    \/ FollowRedirect /\ UNCHANGED allButAccess
    \/ \E o \in ShownOrders : OpenRowMenu(o) /\ UNCHANGED allButAccess
    \/ \E o \in ShownOrders, m \in BOOLEAN : OpenViewDialog(o, m) /\ UNCHANGED allButAccess
    \/ \E i \in BOOLEAN, st \in Statuses :
           Send(OrderFormBody(i, st, user)) /\ UNCHANGED allButAccess
    \/ \E st \in Statuses : Send(UpdateOrderFormBody(st)) /\ UNCHANGED allButAccess
    \/ \E st \in Statuses : Send(StatusChangeBody(st)) /\ UNCHANGED allButAccess
    \/ Send(MarkPaidBody) /\ UNCHANGED allButAccess
    \/ Send(AssignDeliveryBody) /\ UNCHANGED allButAccess

SpecAccess == Init /\ [][NextAccess]_allVars

\* =================================================================== claims
\* the adjustments of an edit have been computed and its locals are kept
EditComputed == saveKind = "update" /\ saveResult \in {"running", "success"}

InBoth   == ProductsOf(originalItems) \cap ProductsOf(subItems)
OnlyOld  == ProductsOf(originalItems) \ ProductsOf(subItems)
OnlyNew  == ProductsOf(subItems) \ ProductsOf(originalItems)

LinesOf(items, p) == {i \in DOMAIN items : items[i].productId = p}

\* same products and quantities, line by line
SameItems(a, b) ==
    /\ Len(a) = Len(b)
    /\ \A i \in DOMAIN a : /\ a[i].productId = b[i].productId
                           /\ a[i].quantity = b[i].quantity

CallsFor(p) == {i \in DOMAIN productCalls : productCalls[i].pid = p}

\* C1: for every product in both the original and the edited items of an edit,
\* the adjustment is the edited total quantity minus the original total
\* quantity, also when the original order holds the product on several lines.
C1_NetOfTotals ==
    EditComputed =>
        \A p \in InBoth :
            Adjustment(entries, p) =
                TotalQty(subItems, p) - TotalQty(originalItems, p)

\* C2: when the edited items equal the original items, every adjustment is 0
\* and the save issues no update-product call.
C2_UnchangedIsNoop ==
    (EditComputed /\ SameItems(originalItems, subItems)) =>
        /\ \A i \in DOMAIN entries : entries[i].adjustment = 0
        /\ productCalls = <<>>

\* C3: a product held with quantity q1 before the edit and q2 after it gets the
\* adjustment q2 - q1, and no stock call when q1 = q2.
C3_QuantityChange ==
    EditComputed =>
        \A p \in InBoth : \A q1, q2 \in 0..(MaxItems * MaxQty) :
            (q1 = TotalQty(originalItems, p) /\ q2 = TotalQty(subItems, p)) =>
                /\ Adjustment(entries, p) = q2 - q1
                /\ q1 = q2 => CallsFor(p) = {}

\* C9: a product whose lines were all removed gets minus its original quantity
\* as adjustment, and the stock written for it is stock + quantity.
C9_RemovedReturnsAll ==
    EditComputed =>
        \A p \in OnlyOld :
            /\ Adjustment(entries, p) = 0 - TotalQty(originalItems, p)
            /\ \A i \in CallsFor(p) :
                   productCalls[i].stock =
                       subProducts.stock[p] + TotalQty(originalItems, p)

\* C10: a product that appears only in the edited items gets the full quantity
\* newly ordered of it as adjustment.
C10_AddedTakesAll ==
    EditComputed =>
        \A p \in OnlyNew :
            /\ HasKey(entries, p)
            /\ Adjustment(entries, p) = TotalQty(subItems, p)

\* C10 witness: an edit added a product on two lines
C10_Witness ==
    /\ EditComputed
    /\ \E p \in OnlyNew : Cardinality(LinesOf(subItems, p)) = 2

\* quantity of product p committed by the orders the back end holds
RECURSIVE CommittedIn(_, _)
CommittedIn(ids, p) ==
    IF ids = {} THEN 0
    ELSE LET o == CHOOSE x \in ids : TRUE
         IN  (IF srvOrders[o].state = "live"
              THEN TotalQty(srvOrders[o].items, p) ELSE 0)
             + CommittedIn(ids \ {o}, p)

Committed(p) == CommittedIn(OrderIds, p)

Quiescent == pc = "idle" /\ inflight = {}

\* C4: whenever no operation is running, the quantities of a product over all
\* non-deleted orders plus the product's stock equal its stock baseline.
C4_ZeroSumLedger ==
    Quiescent => \A p \in Products : Committed(p) + srvStock[p] = InitStock

\* C5: when the update-order call of a save fails, the save has issued no
\* update-product call, has not run the success callback and has shown
\* exactly one error notification.
C5_OrderFailureAborts ==
    (saveKind = "update" /\ saveResult = "orderFailed") =>
        /\ productCalls = <<>>
        /\ \A c \in inflight : c.kind # "updateProduct"
        /\ onSuccessCalls = 0
        /\ successToasts = 0
        /\ errorToasts = 1

\* C5 witness: the update-order call of a changed order failed
C5_Witness ==
    /\ saveKind = "update" /\ saveResult = "orderFailed"
    /\ products.loaded
    /\ ~SameItems(order.items, orderItems)

\* C6: within a save the order call has resolved before the first
\* update-product call is issued, at most one call is outstanding, each stock
\* call has settled before the next is issued, and the success callback runs
\* only after every stock call has settled.
C6_Sequential ==
    saveKind \in {"create", "update"} =>
        /\ Cardinality(inflight) <= 1
        /\ (\E c \in inflight : c.kind = "updateProduct") => orderCommitted
        /\ productCalls # <<>> => orderCommitted
        /\ Len(productCalls) - Len(callResults) \in {0, 1}
        /\ Len(productCalls) - Len(callResults) =
               Cardinality({c \in inflight : c.kind = "updateProduct"})
        /\ onSuccessCalls > 0 =>
               (inflight = {} /\ Len(callResults) = Len(productCalls))

\* C6 witness: the second stock call of an edit is in flight, the first settled
C6_Witness ==
    /\ saveKind = "update" /\ pc = "awaitStock"
    /\ Len(productCalls) = 2 /\ Len(callResults) = 1

C8_StockClamped ==
    saveKind \in {"create", "update"} =>
        \A i \in DOMAIN productCalls :
            LET c   == productCalls[i]
                adj == IF saveKind = "update"
                       THEN Adjustment(entries, c.pid)
                       ELSE entries[i].adjustment
                st  == subProducts.stock[c.pid]
            IN  /\ c.stock >= 0
                /\ c.stock = IF st < adj THEN 0 ELSE st - adj
                /\ (adj > 0 /\ st > 0) => c.stock < st
                /\ adj < 0 => c.stock > st

\* C8 witness: a stock call was clamped, the adjustment exceeding the stock
C8_Witness ==
    /\ saveKind \in {"create", "update"}
    /\ \E i \in DOMAIN productCalls :
           /\ productCalls[i].stock = 0
           /\ subProducts.stock[productCalls[i].pid] <
                  (IF saveKind = "update"
                   THEN Adjustment(entries, productCalls[i].pid)
                   ELSE entries[i].adjustment)

\* ----------------------------------------------------------------- C11
\* C11: whatever triggers two loads of the orders view, the response of the
\* earlier one never overwrites the list: a response that is written to the
\* list is the response of the most recently started load.
C11_LatestLoadWins ==
    [][orders' # orders => orders' = nLoads]_allVars

\* ----------------------------------------------------------------- C12
\* C12: an order that already carries a dispatchDate keeps it unchanged
\* through every later save and status change.
C12_DispatchDateKept ==
    [][srvOrder.dispatchDate # NoDate
         => srvOrder'.dispatchDate = srvOrder.dispatchDate]_allVars

\* ----------------------------------------------------------------- C13
\* C13: an update-order request that sets the status to dispatched, sent by
\* handleStatusChange or by the edit form, carries dispatchDate = the current
\* time and no deliveryPerson (in particular for an order that has no
\* dispatchDate yet); the order's deliveryPerson changes only when an
\* assignDeliveryPerson call completes.
C13_DispatchSetsDateNotDelivery ==
    [][/\ \A c \in statusCalls' \ statusCalls :
              (c.kind = "updateOrder" /\ c.payload.status = "dispatched")
                  => /\ c.payload.dispatchDate = now
                     /\ c.payload.deliveryPerson = NoStaff
       /\ srvOrder'.deliveryPerson # srvOrder.deliveryPerson
              => \E c \in statusCalls \ statusCalls' :
                     c.kind = "assignDeliveryPerson"]_allVars

\* an order dispatched from no dispatchDate, its update stored, nobody assigned
C13_Witness ==
    /\ srvOrder.status = "dispatched"
    /\ srvOrder.dispatchDate # NoDate
    /\ srvOrder.deliveryPerson = NoStaff
    /\ statusCalls = {}
    /\ isDeliveryAssignDialogOpen

\* ----------------------------------------------------------------- C14
\* the order of a rendered badge is dispatched and not paid
DispatchedUnpaid ==
    /\ badge # "unrendered"
    /\ ~badgeOrder.isPaid
    /\ badgeOrder.status = "dispatched"

\* C14: for a dispatched, unpaid order whose paymentCondition is immediate or
\* unspecified the badge shows payment due, whatever the dispatch date is,
\* a missing one included.
C14_ImmediateAlwaysDue ==
    (DispatchedUnpaid /\ badgeOrder.paymentCondition \in {"immediate", "unspecified"})
        => badge = "Payment Due"

\* ----------------------------------------------------------------- C15
\* the order was dispatched at least n whole days before the render
WholeDaysAtLeast(n) == today - badgeOrder.dispatchDate >= n * DayTicks

\* C15: for a dispatched, unpaid order that has a dispatchDate, the badge
\* shows payment due under days15 exactly when at least 15 whole days lie
\* between dispatchDate and today, and under days30 exactly when at least 30 do.
C15_DueAfterTerm ==
    (DispatchedUnpaid /\ badgeOrder.dispatchDate # NoDate)
        => /\ badgeOrder.paymentCondition = "days15"
                => (badge = "Payment Due" <=> WholeDaysAtLeast(Days15))
           /\ badgeOrder.paymentCondition = "days30"
                => (badge = "Payment Due" <=> WholeDaysAtLeast(Days30))

\* a days15 order rendered on the day its term ends, to the tick
C15_Witness ==
    /\ DispatchedUnpaid
    /\ badgeOrder.paymentCondition = "days15"
    /\ badgeOrder.dispatchDate # NoDate
    /\ today - badgeOrder.dispatchDate = Days15 * DayTicks
    /\ badge = "Payment Due"

\* ----------------------------------------------------------------- C16
\* C16: the badge of a paid order never shows payment due, and neither does
\* the badge of an order whose status is not dispatched.
C16_PaidOrUndispatchedNeverDue ==
    (badge # "unrendered" /\ (badgeOrder.isPaid \/ badgeOrder.status # "dispatched"))
        => badge # "Payment Due"

\* an unpaid immediate-payment order with a dispatch date that is back at
\* invoice: rendered, nothing due
C16_Witness ==
    /\ badge = "none"
    /\ ~badgeOrder.isPaid
    /\ badgeOrder.status = "invoice"
    /\ badgeOrder.dispatchDate # NoDate
    /\ badgeOrder.paymentCondition = "immediate"

\* ----------------------------------------------------------------- C17
\* C17: a save that fails validation (no line items, or a field the schema
\* rejects) ends without any update-order, create-order or update-product
\* call, and its error is shown at once: a toast for the empty order, the
\* field messages for the schema.
C17_InvalidSaveMakesNoCall ==
    saveResult \in {"invalid", "schemaInvalid"}
        => /\ inflight = {}
           /\ productCalls = <<>>
           /\ ~orderCommitted
           /\ pc = "idle" /\ ~isLoading
           /\ saveResult = "invalid" => errorToasts = 1
           /\ saveResult = "schemaInvalid" => fieldErrors # {}

\* the edit form saved after its last line was removed
C17_Witness ==
    /\ saveKind = "update"
    /\ saveResult = "invalid"
    /\ order.items # <<>>
    /\ orderItems = <<>>
    /\ errorToasts = 1

\* ----------------------------------------------------------------- C18
\* C18: after a successful update-order call, every product whose adjustment
\* is non-zero gets exactly one update-product call, never zero.
C18_OneCallPerAdjustment ==
    (saveKind = "update" /\ saveResult = "success")
        => \A p \in Products :
               (HasKey(entries, p) /\ Adjustment(entries, p) # 0)
                   => Cardinality(CallsFor(p)) = 1

\* ----------------------------------------------------------------- C20
\* C20: an order save shows one notification at most while it runs, exactly
\* one error and no success when the order call fails, exactly one success
\* and no error otherwise, however many stock updates failed.
C20_OneNotification ==
    saveKind \in {"create", "update"}
        => /\ errorToasts + successToasts <= 1
           /\ saveResult = "orderFailed"
                => (errorToasts = 1 /\ successToasts = 0)
           /\ saveResult = "success"
                => (successToasts = 1 /\ errorToasts = 0)

\* an edit whose order call succeeded and whose stock updates all failed
C20_Witness ==
    /\ saveKind = "update"
    /\ saveResult = "success"
    /\ callResults # <<>>
    /\ \A i \in DOMAIN callResults : callResults[i] = "fail"
    /\ successToasts = 1
    /\ errorToasts = 0

\* ----------------------------------------------------------------- C19
\* C19: two sessions saving edits that touch the same product are not
\* coordinated: every update-product call carries the absolute stock computed
\* from its own session's snapshot, and the stock of the product is the value
\* of the call that was applied last.
C19_LastWriteWins ==
    /\ \A c \in sessCalls :
           c.kind = "updateProduct"
               => c.stock = Max(0, sessProducts[c.session].stock - c.adjustment)
    /\ applied # <<>> => sharedStock = applied[Len(applied)].stock

\* a lost update: both sessions took one unit from the same snapshot and the
\* stock went down by one
C19_Witness ==
    /\ Len(applied) = 2
    /\ applied[1].session # applied[2].session
    /\ applied[1].adjustment = 1 /\ applied[2].adjustment = 1
    /\ sharedStock = InitStock - 1

\* ----------------------------------------------------------------- C21
\* C21: whatever the status of the order, every other status can be set in
\* one step, by the row menu and handleStatusChange or by the edit form: the
\* menu item is not disabled, the request is sent, and when it resolves the
\* order has the new status, backward moves included.
C21_FreelyReassignable ==
    /\ \A t \in Statuses \ {srvOrder.status} :
           /\ ~MenuItemDisabled(srvOrder.status, t, FALSE)
           /\ Len(sentUpdates) < MaxSent
                => /\ ENABLED (HandleStatusChange(t) /\ UNCHANGED formsPageAndRest)
                   /\ ENABLED (EditFormSave(t) /\ UNCHANGED formsPageAndRest)
    /\ \A c \in statusCalls :
           c.kind = "updateOrder"
               => ENABLED (/\ StatusChangeResolved(c) \/ EditFormSaveResolved(c)
                           /\ srvOrder'.status = c.payload.status
                           /\ UNCHANGED formsPageAndRest)

\* a dispatched order was moved back to pending
C21_Witness ==
    /\ srvOrder.status = "pending"
    /\ srvOrder.dispatchDate # NoDate
    /\ statusCalls = {}

\* ----------------------------------------------------------------- C28
\* C28: a request of handleStatusChange carries the key status, and the key
\* dispatchDate exactly when the status is dispatched, and nothing else (no
\* items, no total); sending and settling it issues no update-product call
\* and leaves every stock unchanged; the delivery assignment dialog opens only
\* when a change to dispatched has resolved.
C28_StatusChangeOnlyStatus ==
    [][/\ \A c \in statusCalls' \ statusCalls :
              c.via = "status"
                  => c.keys = IF c.payload.status = "dispatched"
                              THEN {"status", "dispatchDate"} ELSE {"status"}
       /\ (\E c \in (statusCalls' \ statusCalls) \union (statusCalls \ statusCalls') :
               c.via = "status")
              => UNCHANGED <<srvStock, inflight, productCalls>>
       /\ (isDeliveryAssignDialogOpen' /\ ~isDeliveryAssignDialogOpen)
              => \E c \in statusCalls \ statusCalls' :
                     /\ c.via = "status"
                     /\ c.payload.status = "dispatched"
                     /\ srvOrder'.status = "dispatched"]_allVars

\* the first request sent was a change to dispatched, it resolved and the
\* dialog is open
C28_Witness ==
    /\ Len(sentUpdates) = 1
    /\ sentUpdates[1].status = "dispatched"
    /\ srvOrder.status = "dispatched"
    /\ isDeliveryAssignDialogOpen
    /\ srvStock = [p \in Products |-> InitStock]

\* ----------------------------------------------------------------- C23
\* the sum of quantity * price over the lines 1..n of a list
RECURSIVE LineSum(_, _)
LineSum(items, n) ==
    IF n = 0 THEN 0
    ELSE items[n].quantity * items[n].price + LineSum(items, n - 1)

\* C23: in every order payload the create form or the edit form sends, total
\* is the sum of quantity * price over exactly the line items of that payload.
C23_TotalIsSumOfLines ==
    \A c \in inflight :
        c.kind \in {"createOrder", "updateOrder"}
            => c.total = LineSum(c.items, Len(c.items))

\* a payload of two lines whose quantities and prices differ is in flight
C23_Witness ==
    \E c \in inflight :
        /\ c.kind \in {"createOrder", "updateOrder"}
        /\ Len(c.items) = 2
        /\ c.items[1].quantity # c.items[2].quantity
        /\ c.items[1].price # c.items[2].price
        /\ c.total > 0

\* ----------------------------------------------------------------- C24
\* C24: whatever the sequence of add, update-quantity, update-price and
\* remove, every line item of the form and of the payloads it sends has an
\* integer quantity above 0; an add or a quantity update whose value is 0 or
\* less leaves the list as it is.
C24_QuantitiesStayPositive ==
    /\ \A i \in DOMAIN orderItems :
           orderItems[i].quantity \in Nat \ {0}
    /\ \A c \in inflight : \A i \in DOMAIN c.items :
           c.items[i].quantity \in Nat \ {0}
    /\ \A q \in {x \in Qtys : x <= 0} :
           /\ \A p \in Products, pr \in Prices :
                  AddItem(orderItems, p, q, pr) = orderItems
           /\ \A i \in DOMAIN orderItems :
                  UpdateItemQuantity(orderItems, i, q) = orderItems

\* the edit form after a quantity was raised and another line added
C24_Witness ==
    /\ mode = "update"
    /\ Len(orderItems) = 2
    /\ Len(order.items) = 1
    /\ orderItems[1].quantity > order.items[1].quantity
    /\ orderItems[1].productId = order.items[1].productId
    /\ orderItems[1].price = order.items[1].price

\* ----------------------------------------------------------------- C26
\* C26: when a create save has ended with the product list loaded and every
\* stock call resolved, the stock of each product of the order is the stock
\* the form had loaded less the total quantity ordered over all its lines,
\* clamped at 0.
C26_StockLoweredByTotal ==
    (/\ saveKind = "create"
     /\ saveResult = "success"
     /\ subProducts.loaded
     /\ \A i \in DOMAIN callResults : callResults[i] = "ok")
        => \A p \in ProductsOf(subItems) :
               srvStock[p] = Max(0, subProducts.stock[p] - TotalQty(subItems, p))

\* ----------------------------------------------------------------- C29
\* C29: when every API call settles, a save that passed validation (isLoading
\* is TRUE) reaches isLoading = FALSE having run the success path (the success
\* callback, once) or shown the error notification (once), failed stock
\* updates included; and while isLoading is TRUE no other save starts.
C29_SaveTerminates ==
    /\ [](isLoading =>
            <>(/\ ~isLoading
               /\ \/ saveResult = "success" /\ onSuccessCalls = 1
                  \/ saveResult = "orderFailed" /\ errorToasts = 1))
    /\ [][isLoading => nSaves' = nSaves /\ saveKind' = saveKind]_vars

\* a save ended on its success path although a stock update had failed
C29_Witness ==
    /\ ~isLoading
    /\ saveResult = "success"
    /\ onSuccessCalls = 1
    /\ \E i \in DOMAIN callResults : callResults[i] = "fail"
    /\ nSaves = MaxSaves

\* ----------------------------------------------------------------- C22
\* C22: after a status change, a mark-as-paid or a delivery assignment has
\* settled, every entry of the in-memory list is the order of the last server
\* response for it: the changed entry is the returned order and every other
\* entry is untouched, also when two mutations on different orders were in
\* flight together; a failed mutation leaves the list as it was.
C22_ListHoldsLastResponses ==
    \A o \in RowIds : tableOrders[o] = lastResponse[o]

\* ----------------------------------------------------------------- C25
\* C25: the body of a create request has the key createdBy and its value is
\* the id of the current user; the body of no update request (edit form,
\* OrderForm in update mode, status change, mark paid, delivery assignment)
\* has the key createdBy.
C25_CreatedByOnlyAtCreation ==
    /\ lastBody.kind = "createOrder"
           => /\ "createdBy" \in lastBody.keys
              /\ lastBody.createdBy \in {user.id, user.mid} \ {NoId}
    /\ lastBody.kind \in {"updateOrder", "markOrderAsPaid", "assignDeliveryPerson"}
           => /\ "createdBy" \notin lastBody.keys
              /\ lastBody.createdBy = NoId

\* a user whose record has no _id has created an order
C25_Witness ==
    /\ lastBody.kind = "createOrder"
    /\ user.mid = NoId
    /\ lastBody.createdBy = user.id

\* ----------------------------------------------------------------- C27
RestrictedActions == {"edit", "status", "markPaid", "delete"}

IsAssignee(u, o) == o.assignedTo \in {u.id, u.mid}

\* C27: at every entry point (row menu, view dialog on a desktop and on a
\* mobile screen) an executive, and a staff member the order is not assigned
\* to, is offered none of edit, status change, mark paid and delete; delete
\* is offered to admins only.
C27_OffersFollowRole ==
    offered # NoOffer
        => /\ (IsExecutive(user) \/ (user.role = "staff" /\ ~IsAssignee(user, offered.order)))
                  => offered.actions \cap RestrictedActions = {}
           /\ "delete" \in offered.actions => IsAdmin(user)

\* ----------------------------------------------------------------- C30
\* C30: a user who is not authenticated is rendered no protected page
\* (dashboard, orders, products, staff, analytics) but the redirect to /login;
\* a user of role staff is rendered neither /staff nor /analytics but the
\* redirect to /dashboard; while the authentication state is loading a guarded
\* route renders neither the page nor a redirect.
C30_RouteGuards ==
    /\ (rendered.kind = "page" /\ rendered.path \in ProtectedPages)
           => /\ IsAuthenticated(user) /\ ~loading
              /\ rendered.path \in AdminPages => user.role # "staff"
    /\ (location \in ProtectedPages /\ ~loading /\ ~IsAuthenticated(user))
           => rendered = Redirect("/login")
    /\ (location \in AdminPages /\ ~loading /\ user.role = "staff")
           => rendered = Redirect("/dashboard")
    /\ (location \in ProtectedPages /\ loading) => rendered = Spinner

\* a staff member at /staff is being redirected to the dashboard
C30_Witness ==
    /\ location = "/staff"
    /\ user.role = "staff"
    /\ ~loading
    /\ rendered = Redirect("/dashboard")

====
